---- MODULE Spec2Model ----
\* Resumable segmented download engine (src-tauri/src/download.rs):
\* the token registry, the segment plan, the persisted state file, the
\* segment tasks and the monitoring loop of `download`, and `cancel_download`.
EXTENDS Integers, Sequences, FiniteSets, TLC

\* ---------------------------------------------------------------- constants
concurrency == 8          \* download.rs:89
EmitMs == 50              \* download.rs:168
SleepMs == 100            \* download.rs:181
U64 == 2^30               \* width of the model's u64 (TLC integers are 32 bit)

\* ------------------------------------------------------------------- bounds
MaxAttempts == 2          \* calls of `download` in one run
MaxRunning == 1           \* attempts inside the monitoring loop at one time
MaxSlow == 2              \* segment tasks still unfinished when the loop starts
MaxErrors == 1            \* segment tasks that end with an error
MaxLinger == 0            \* detached tasks still alive when `download` is called
SmallTotal == 1           \* a Content-Length below the segment count
MaxTotal == 15            \* the largest Content-Length the probe reports
ChunkLen == 4             \* bytes in one chunk of a response stream
MaxPlanTotal == 70        \* largest Content-Length of the plan-only runs
MaxOverlap == 2           \* attempts in their loop at one time, overlapping calls
MaxLate == 1              \* detached tasks alive at a call, overlapping calls

Ids == {"a", "b"}
Outputs == {"o"}
Attempts == 1..MaxAttempts
Totals == {SmallTotal, MaxTotal}
NoLength == -1            \* the HEAD response carries no Content-Length
None == [none |-> TRUE]   \* Option::None / no file
\* the call unwinds: unwrap of the probe's Err (download.rs:87), or an
\* arithmetic overflow in a build with overflow checks (download.rs:94)
PanicNoLength == [panic |-> "no Content-Length"]
PanicOverflow == [panic |-> "subtract with overflow"]
Panics == {PanicNoLength, PanicOverflow}
NoCall == [op |-> "none"]

VARIABLES
  TOKENS,          \* the registry: id -> token (0: no entry); a token is named
                   \* by the attempt that created it
  cancelled,       \* the tokens on which cancel() was called
  stateFile,       \* output -> the DownloadState in "<output>.state", or None
  outFile,         \* output -> the output file: exists, offsets written
  nAtt,            \* number of `download` calls made
  pc,              \* attempt -> "idle" | "check" | "poll" | "exit" | "done"
  result,          \* attempt -> "none" | "Ok" | "Paused" | a panic message
  argId,           \* attempt -> the id argument
  state,           \* attempt -> its DownloadState (local `state`)
  handles,         \* attempt -> its segment tasks
  last_emit,       \* attempt -> ms elapsed since `last_emit`
  progress,        \* attempt -> the last DOWNLOAD_PROGRESS event (observer side)
  call             \* the cancel_download call just made (observer side)

vars == <<TOKENS, cancelled, stateFile, outFile, nAtt, pc,
          result, argId, state, handles, last_emit, progress, call>>

Min(a, b) == IF a < b THEN a ELSE b

RECURSIVE SumDownloaded(_)
SumDownloaded(segs) ==
  IF segs = <<>> THEN 0
  ELSE Head(segs).downloaded + SumDownloaded(Tail(segs))

\* ------------------------------------------------------------ segment plan
\* u64 subtraction: [ovf] tells whether it overflows, [val] is the wrapped value
SubU64(a, b) == [ovf |-> a < b, val |-> (a - b) % U64]

\* download.rs:93 (i counts from 0)
SegStart(i, part) == i * part

\* download.rs:94
SegEnd(i, part, total) ==
  IF i = concurrency - 1 THEN SubU64(total, 1) ELSE SubU64((i + 1) * part, 1)

\* download.rs:94: some end offset underflows (0 - 1)
PlanOverflows(total) ==
  \E i \in 0..(concurrency - 1) : SegEnd(i, total \div concurrency, total).ovf

\* download.rs:90-96
FreshSegments(total) ==
  LET part == total \div concurrency
  IN [k \in 1..concurrency |->
        [start |-> SegStart(k - 1, part),
         end |-> SegEnd(k - 1, part, total).val,
         downloaded |-> 0]]

\* download.rs:89-97: the fresh state, or a panic when the arithmetic overflows
\* in a build with overflow checks
FreshState(id, output, total, checks) ==
  IF PlanOverflows(total) /\ checks THEN PanicOverflow
  ELSE [id |-> id, output |-> output, total_size |-> total,
        concurrency |-> concurrency, segments |-> FreshSegments(total)]

\* ------------------------------------------------------------ state file
\* (mutant) the snapshot is written with the counts of a fresh plan
save_reset(st, files) ==
  [files EXCEPT ![st.output] =
     [st EXCEPT !.segments = [i \in 1..Len(st.segments) |->
                                [st.segments[i] EXCEPT !.downloaded = 0]]]]

\* download.rs:45-49: DownloadState::save writes "<output>.state"
save(st, files) == [files EXCEPT ![st.output] = st]

\* download.rs:50-58: DownloadState::load
load(output, files) == files[output]

\* (mutant) the state file is left in place
keep_state(st, files) == files

\* download.rs:185: remove_file(state.state_file())
remove_state(st, files) == [files EXCEPT ![st.output] = None]

\* ---------------------------------------------------------- remote server
\* Bytes a server that honours ranges streams for "bytes=from-to" of a
\* resource of `total` bytes: the range clipped to the resource; nothing for
\* an empty or unsatisfiable range.
Body(from, to, total) ==
  IF from > to \/ from >= total THEN 0 ELSE Min(to, total - 1) - from + 1

\* ----------------------------------------------------------- segment task
\* (mutant) the range restarts at the segment's first byte
RangeFromStart(seg) == seg.start

\* download.rs:128: the first byte asked for, start + downloaded
RangeFrom(seg) == seg.start + seg.downloaded

\* download.rs:119-130: the task owns a copy of its segment and of the output
\* path, starts from the recorded count and asks for bytes
\* start+downloaded .. end of a resource of `size` bytes; `left` is what the
\* response stream still holds, `late` counts, while the task runs, the chunks
\* it took with the token already cancelled (observer side).
NewTask(seg, output, size) ==
  [st |-> "send", start |-> seg.start, downloaded |-> seg.downloaded,
   from |-> RangeFrom(seg), to |-> seg.end,
   left |-> Body(RangeFrom(seg), seg.end, size), out |-> output, late |-> 0]

\* download.rs:137,144: the file position of the task's next write
FilePos(t) == t.start + t.downloaded

\* download.rs:143-145: a chunk of n bytes is written and counted
Received(t, n) == [t EXCEPT !.downloaded = @ + n, !.left = @ - n]

\* (mutant) a short write: the last byte of the chunk does not reach the file
WrittenShort(t, n) == FilePos(t)..(FilePos(t) + n - 2)

\* download.rs:144: write_all puts the n bytes of a chunk at the file position
Written(t, n) == FilePos(t)..(FilePos(t) + n - 1)

\* download.rs:132-136,144: the output file, created by the open if absent,
\* after the bytes at `offsets` were written
NoFile == [exists |-> FALSE, bytes |-> {}]
WriteTo(file, offsets) == [exists |-> TRUE, bytes |-> file.bytes \cup offsets]

\* a task that ran to the end of its stream
FinishedTask(t) == [Received(t, t.left) EXCEPT !.st = "ok"]

\* a finished task whose JoinHandle was dropped with the call's locals
Gone == [st |-> "gone"]
NoState == [none |-> TRUE]
NoProgress == [n |-> 0, transferred |-> 0, gap |-> 0, age |-> 0]

Running(a) == pc[a] \in {"check", "poll", "exit"}
NumRunning == Cardinality({a \in Attempts : Running(a)})
SegsOf(a) == 1..Len(handles[a])
NumErrors ==
  Cardinality({<<a, i>> \in Attempts \X (1..concurrency) :
                 i \in SegsOf(a) /\ handles[a][i].st = "err"})
\* the tasks still alive whose call has returned
NumDetached ==
  Cardinality({<<a, i>> \in Attempts \X (1..concurrency) :
                 /\ pc[a] = "done" /\ i \in SegsOf(a)
                 /\ handles[a][i].st \in {"send", "recv"}})
\* the segments whose task may still be unfinished when the loop first polls
SlowSets == SUBSET ((concurrency - MaxSlow + 1)..concurrency)

\* ------------------------------------------------------------------- Init
Init ==
  /\ TOKENS = [i \in Ids |-> 0]
  /\ cancelled = {}
  /\ stateFile = [o \in Outputs |-> None]
  /\ outFile = [o \in Outputs |-> NoFile]
  /\ nAtt = 0
  /\ pc = [a \in Attempts |-> "idle"]
  /\ result = [a \in Attempts |-> "none"]
  /\ argId = [a \in Attempts |-> "a"]
  /\ state = [a \in Attempts |-> NoState]
  /\ handles = [a \in Attempts |-> <<>>]
  /\ last_emit = [a \in Attempts |-> 0]
  /\ progress = [a \in Attempts |-> NoProgress]
  /\ call = NoCall

\* ---------------------------------------------------------------- download
\* (mutant) the probe comes first, the state file second
ProbeThenLoad(id, output, probe, files, checks) ==
  LET loaded == load(output, files)
  IN IF probe = NoLength THEN PanicNoLength
     ELSE IF loaded # None THEN loaded
     ELSE FreshState(id, output, probe, checks)

\* download.rs:73-98: the state loaded from "<output>.state", else a fresh
\* plan from the probed length; a panic when the probe has no length
\* (unwrap of the Err, line 87) or the plan arithmetic overflows in a build
\* with overflow checks.
LoadOrInit(id, output, probe, files, checks) ==
  LET loaded == load(output, files)
  IN IF loaded # None THEN loaded
     ELSE IF probe = NoLength THEN PanicNoLength
     ELSE FreshState(id, output, probe, checks)

\* the call's locals are dropped when it returns or unwinds; the tasks that
\* have not finished keep running detached
DropLocals(a) ==
  /\ state' = [state EXCEPT ![a] = NoState]
  /\ handles' = [handles EXCEPT ![a] =
       [i \in SegsOf(a) |->
          IF handles[a][i].st \in {"send", "recv"} THEN handles[a][i] ELSE Gone]]
  /\ argId' = [argId EXCEPT ![a] = "a"]
  /\ last_emit' = [last_emit EXCEPT ![a] = 0]
  /\ progress' = [progress EXCEPT ![a] = NoProgress]

\* download.rs:71-98, the call panics before anything is registered
DownloadPanics(id, output, probe, checks) ==
  LET a == nAtt + 1
  IN /\ nAtt < MaxAttempts
     /\ LoadOrInit(id, output, probe, stateFile, checks) \in Panics
     /\ nAtt' = a
     /\ pc' = [pc EXCEPT ![a] = "done"]
     /\ result' = [result EXCEPT ![a] =
                     LoadOrInit(id, output, probe, stateFile, checks).panic]
     /\ UNCHANGED call
     /\ UNCHANGED <<TOKENS, cancelled, stateFile, outFile, argId,
                    state, handles, last_emit, progress>>

\* download.rs:117-149: one task per segment.  The tasks of the segments not
\* in `slow` have run to the end of their stream by the time the loop first
\* polls them.
Spawn(st, slow) ==
  [i \in 1..Len(st.segments) |->
     LET t == NewTask(st.segments[i], st.output, st.total_size)
     IN IF i \in slow THEN t ELSE FinishedTask(t)]

\* download.rs:132-146: what the tasks that have run to the end by then have
\* done to the output file
EarlyWrites(st, slow, file) ==
  LET early == (1..Len(st.segments)) \ slow
      t(i) == NewTask(st.segments[i], st.output, st.total_size)
  IN IF early = {} THEN file
     ELSE WriteTo(file, UNION {Written(t(i), t(i).left) : i \in early})

\* download.rs:71-149: load or plan, register the token, spawn the tasks.
\* `delay` is the time from line 114 to the loop's first test of last_emit.
\* The call is made with fewer than `running` attempts in their loop and at
\* most `linger` detached tasks alive.
DownloadStarts(id, output, probe, checks, slow, delay, running, linger) ==
  LET a == nAtt + 1
      st == LoadOrInit(id, output, probe, stateFile, checks)
  IN /\ nAtt < MaxAttempts
     /\ NumRunning < running
     /\ NumDetached <= linger
     /\ st \notin Panics
     /\ nAtt' = a
     /\ state' = [state EXCEPT ![a] = st]
     /\ argId' = [argId EXCEPT ![a] = id]
     /\ TOKENS' = [TOKENS EXCEPT ![id] = a]
     /\ handles' = [handles EXCEPT ![a] = Spawn(st, slow)]
     /\ outFile' = [outFile EXCEPT ![st.output] = EarlyWrites(st, slow, @)]
     /\ last_emit' = [last_emit EXCEPT ![a] = delay]
     /\ pc' = [pc EXCEPT ![a] = "check"]
     /\ UNCHANGED call
     /\ UNCHANGED <<cancelled, stateFile, result, progress>>

\* download.rs:71: one call; the probe answers with a length in `lengths`
\* or with none, the build has overflow checks or not
download(id, output, lengths, slowSets, running, linger) ==
  \E probe \in lengths \cup {NoLength}, checks \in BOOLEAN :
     \/ DownloadPanics(id, output, probe, checks)
     \/ \E slow \in slowSets, delay \in {EmitMs - 1, EmitMs} :
          DownloadStarts(id, output, probe, checks, slow, delay, running,
                         linger)

\* ------------------------------------------------------------ segment task
\* a task that finishes after its call returned leaves nothing behind
Finished(a, t) == IF pc[a] = "done" THEN Gone ELSE t

SetTask(a, i, t) == handles' = [handles EXCEPT ![a][i] = t]

\* download.rs:127-137: the response arrives, the output file is opened
\* (created if absent) and positioned at start+downloaded
TaskSend(a, i) ==
  /\ i \in SegsOf(a) /\ handles[a][i].st = "send"
  /\ SetTask(a, i, [handles[a][i] EXCEPT !.st = "recv"])
  /\ outFile' = [outFile EXCEPT ![handles[a][i].out] = WriteTo(@, {})]
  /\ UNCHANGED call
  /\ UNCHANGED <<TOKENS, cancelled, stateFile, nAtt, pc,
                 result, argId, state, last_emit, progress>>

\* download.rs:139-146: the stream branch of select! yields a chunk of n
\* bytes (ChunkLen bytes, the last chunk what is left), written at the file
\* position, counted in `downloaded`.  The branch can be taken with the token
\* cancelled: select! picks among ready branches.
TaskChunk(a, i, n) ==
  LET t == handles[a][i]
  IN /\ i \in SegsOf(a) /\ t.st = "recv"
     /\ n > 0 /\ n = Min(t.left, ChunkLen)
     /\ SetTask(a, i, [Received(t, n) EXCEPT
                         !.late = IF a \in cancelled THEN @ + 1 ELSE @])
     /\ outFile' = [outFile EXCEPT ![t.out] = WriteTo(@, Written(t, n))]
     /\ UNCHANGED call
     /\ UNCHANGED <<TOKENS, cancelled, stateFile, nAtt, pc,
                    result, argId, state, last_emit, progress>>

\* download.rs:139-147: the stream is exhausted, the task returns Ok(downloaded)
TaskEnd(a, i) ==
  LET t == handles[a][i]
  IN /\ i \in SegsOf(a) /\ t.st = "recv"
     /\ t.left = 0
     /\ SetTask(a, i, Finished(a, [t EXCEPT !.st = "ok", !.late = 0]))
     /\ UNCHANGED call
     /\ UNCHANGED <<TOKENS, cancelled, stateFile, outFile,
                    nAtt, pc, result, argId, state, last_emit, progress>>

\* download.rs:140,147: the cancelled branch wins, the task returns
\* Ok(downloaded) with what it has so far
TaskCancelled(a, i) ==
  LET t == handles[a][i]
  IN /\ i \in SegsOf(a) /\ t.st = "recv"
     /\ a \in cancelled
     /\ SetTask(a, i, Finished(a, [t EXCEPT !.st = "ok", !.late = 0]))
     /\ UNCHANGED call
     /\ UNCHANGED <<TOKENS, cancelled, stateFile, outFile,
                    nAtt, pc, result, argId, state, last_emit, progress>>

\* download.rs:129,136,143,144: send, open, a chunk or a write fails; the
\* task returns Err and its count is lost
TaskFails(a, i) ==
  LET t == handles[a][i]
  IN /\ i \in SegsOf(a) /\ t.st \in {"send", "recv"}
     /\ NumErrors < MaxErrors
     /\ SetTask(a, i, Finished(a, [t EXCEPT !.st = "err", !.downloaded = 0,
                                              !.left = 0, !.late = 0]))
     /\ UNCHANGED call
     /\ UNCHANGED <<TOKENS, cancelled, stateFile, outFile,
                    nAtt, pc, result, argId, state, last_emit, progress>>

\* -------------------------------------------------------- monitoring loop
\* download.rs:153-156: the top of the loop
LoopCheck(a) ==
  /\ pc[a] = "check"
  /\ IF a \in cancelled
       THEN /\ stateFile' = save(state[a], stateFile)
            /\ pc' = [pc EXCEPT ![a] = "done"]
            /\ result' = [result EXCEPT ![a] = "Paused"]
            /\ DropLocals(a)
       ELSE /\ pc' = [pc EXCEPT ![a] = "poll"]
            /\ UNCHANGED <<stateFile, result, argId, state, handles, last_emit,
                           progress>>
  /\ UNCHANGED <<TOKENS, cancelled, outFile, nAtt, call>>

\* (mutant) the count of every finished task is adopted, an Err's included
PolledAny(segs, tasks) ==
  [i \in 1..Len(segs) |->
     IF tasks[i].st \in {"ok", "err"}
       THEN [segs[i] EXCEPT !.downloaded = tasks[i].downloaded]
       ELSE segs[i]]

\* download.rs:158-163: a task that has finished with Ok(d) gives its
\* segment's count; any other segment keeps its recorded count
Polled(segs, tasks) ==
  [i \in 1..Len(segs) |->
     IF tasks[i].st = "ok" THEN [segs[i] EXCEPT !.downloaded = tasks[i].downloaded]
     ELSE segs[i]]

\* (mutant) the throttle fires one millisecond early
ShouldEmitEarly(elapsed) == elapsed >= EmitMs - 1

\* download.rs:168: the throttle test on the time since last_emit
ShouldEmit(elapsed) == elapsed >= EmitMs

\* download.rs:176: the timer after an iteration that emitted or not
TimerAfter(emit, elapsed) == IF emit THEN 0 ELSE elapsed

\* (mutant) the loop is left one byte early
IsCompleteEarly(total_dl, total_size) == total_dl >= total_size - 1

\* (mutant) the loop is left only past the total
IsCompleteStrict(total_dl, total_size) == total_dl > total_size

\* download.rs:178
IsComplete(total_dl, total_size) == total_dl >= total_size

\* the observer's record of the events: [n] is 0 before the first event and
\* alternates 1, 2 after; [gap] is the time since the previous event; [age]
\* the time since this one
Observed(p, emit, total_dl) ==
  IF emit
    THEN [n |-> IF p.n = 1 THEN 2 ELSE 1, transferred |-> total_dl,
          gap |-> IF p.n = 0 THEN 0 ELSE p.age, age |-> 0]
    ELSE p

\* download.rs:157-182: poll the handles, sum, emit if due, then leave the
\* loop or sleep
LoopPoll(a) ==
  LET segs == Polled(state[a].segments, handles[a])
      total_dl == SumDownloaded(segs)
      emit == ShouldEmit(last_emit[a])
      since == TimerAfter(emit, last_emit[a])
      seen == Observed(progress[a], emit, total_dl)
  IN /\ pc[a] = "poll"
     /\ state' = [state EXCEPT ![a].segments = segs]
     /\ IF IsComplete(total_dl, state[a].total_size)
          THEN /\ pc' = [pc EXCEPT ![a] = "exit"]
               /\ last_emit' = [last_emit EXCEPT ![a] = since]
               /\ progress' = [progress EXCEPT ![a] = seen]
          ELSE /\ pc' = [pc EXCEPT ![a] = "check"]
               /\ last_emit' = [last_emit EXCEPT ![a] = since + SleepMs]
               /\ progress' = [progress EXCEPT ![a] =
                     [seen EXCEPT !.age = IF seen.n = 0 THEN 0
                                          ELSE @ + SleepMs]]
     /\ UNCHANGED call
     /\ UNCHANGED <<TOKENS, cancelled, stateFile, outFile, nAtt, argId,
                    handles, result>>

\* download.rs:184-186: after the loop, remove the state file and return Ok
LoopExit(a) ==
  /\ pc[a] = "exit"
  /\ stateFile' = remove_state(state[a], stateFile)
  /\ pc' = [pc EXCEPT ![a] = "done"]
  /\ result' = [result EXCEPT ![a] = "Ok"]
  /\ DropLocals(a)
  /\ UNCHANGED call
  /\ UNCHANGED <<TOKENS, cancelled, outFile, nAtt>>

\* --------------------------------------------------------- cancel_download
\* (mutant) an id without an entry drains the registry and cancels every token
cancel_or_drain(id) ==
  /\ IF TOKENS[id] # 0
       THEN /\ TOKENS' = [TOKENS EXCEPT ![id] = 0]
            /\ cancelled' = cancelled \cup {TOKENS[id]}
       ELSE /\ TOKENS' = [i \in Ids |-> 0]
            /\ cancelled' = cancelled \cup ({TOKENS[i] : i \in Ids} \ {0})
  /\ UNCHANGED <<stateFile, outFile, nAtt, pc, result, argId,
                 state, handles, last_emit, progress>>

\* download.rs:191-195
cancel_download(id) ==
  /\ IF TOKENS[id] # 0
       THEN /\ TOKENS' = [TOKENS EXCEPT ![id] = 0]
            /\ cancelled' = cancelled \cup {TOKENS[id]}
       ELSE UNCHANGED <<TOKENS, cancelled>>
  /\ UNCHANGED <<stateFile, outFile, nAtt, pc, result, argId,
                 state, handles, last_emit, progress>>

\* ------------------------------------------------------------------- Next
\* The program, called with the ids in `ids`, the probe answering with the
\* lengths in `lengths`: the calls are not recorded.
Program(ids, lengths, slowSets, running, linger) ==
  \/ \E id \in ids, output \in Outputs :
        download(id, output, lengths, slowSets, running, linger)
  \/ \E id \in ids : cancel_download(id) /\ UNCHANGED call
  \/ \E a \in Attempts : LoopCheck(a)
  \/ \E a \in Attempts : LoopPoll(a)
  \/ \E a \in Attempts : LoopExit(a)
  \/ \E a \in Attempts, i \in 1..concurrency : TaskSend(a, i)
  \/ \E a \in Attempts, i \in 1..concurrency, n \in 1..ChunkLen : TaskChunk(a, i, n)
  \/ \E a \in Attempts, i \in 1..concurrency : TaskEnd(a, i)
  \/ \E a \in Attempts, i \in 1..concurrency : TaskCancelled(a, i)
  \/ \E a \in Attempts, i \in 1..concurrency : TaskFails(a, i)

\* one attempt in its loop at a time, started when no detached task is alive
Run(ids) == Program(ids, Totals, SlowSets, MaxRunning, MaxLinger)

Next == Run(Ids)

Spec == Init /\ [][Next]_vars

\* The program with the last cancel_download call recorded in `call`, and at
\* most the last segment's task unfinished when a loop starts.
NextCall ==
  \/ \E id \in Ids, output \in Outputs :
        download(id, output, Totals, SUBSET {concurrency}, MaxRunning,
                 MaxLinger)
  \/ \E id \in Ids :
       /\ cancel_download(id)
       /\ call' = [op |-> "cancel", id |-> id, found |-> TOKENS[id] # 0]
  \/ \E a \in Attempts : LoopCheck(a)
  \/ \E a \in Attempts : LoopPoll(a)
  \/ \E a \in Attempts : LoopExit(a)
  \/ \E a \in Attempts, i \in 1..concurrency : TaskSend(a, i)
  \/ \E a \in Attempts, i \in 1..concurrency, n \in 1..ChunkLen : TaskChunk(a, i, n)
  \/ \E a \in Attempts, i \in 1..concurrency : TaskEnd(a, i)
  \/ \E a \in Attempts, i \in 1..concurrency : TaskCancelled(a, i)
  \/ \E a \in Attempts, i \in 1..concurrency : TaskFails(a, i)

SpecCall == Init /\ [][NextCall]_vars

\* Plan construction alone: `download` up to the spawn, over every
\* Content-Length up to MaxPlanTotal.
NextPlan ==
  \E id \in Ids, output \in Outputs :
     download(id, output, 0..MaxPlanTotal, {{}}, MaxRunning, MaxLinger)

SpecPlan == Init /\ [][NextPlan]_vars

\* The runtime keeps polling the loop and the spawned tasks; the server keeps
\* answering.  Nothing forces a cancel_download call, a new download call or
\* a task error.
TaskRuns(a, i) ==
  \/ TaskSend(a, i)
  \/ \E n \in 1..ChunkLen : TaskChunk(a, i, n)
  \/ TaskEnd(a, i)
  \/ TaskCancelled(a, i)

Fairness ==
  \A a \in Attempts :
     /\ WF_vars(LoopCheck(a) \/ LoopPoll(a) \/ LoopExit(a))
     /\ \A i \in 1..concurrency : WF_vars(TaskRuns(a, i))

\* the fair runs, all calls made with one id
NextLive == Run({"a"})

FairSpec == Init /\ [][NextLive]_vars /\ Fairness

\* A call that follows a returned one at once: `download` is called again,
\* for a resource of MaxTotal bytes, while a task of the returned attempt is
\* still alive.
NextLate ==
  Program({"a"}, {MaxTotal}, SUBSET {concurrency}, MaxRunning, MaxLate)

SpecLate == Init /\ [][NextLate]_vars

\* Calls that overlap: `download` is called again, with the same id and for
\* a resource of MaxTotal bytes, while an earlier attempt is in its loop or
\* while a task of a returned attempt is still alive.
NextOverlap ==
  Program({"a"}, {MaxTotal}, SUBSET {concurrency}, MaxOverlap, MaxLate)

SpecOverlap == Init /\ [][NextOverlap]_vars

\* ===================================================================== claims
InLoop(a) == pc[a] \in {"check", "poll"}
SegLen(seg) == seg.end - seg.start + 1
Alive(t) == t.st \in {"send", "recv"}

\* C1: for every Content-Length the probe reports (below 8 and not divisible
\* by 8 included) the fresh plan has exactly 8 segments with
\* 0 <= start <= end < total_size, pairwise disjoint, consecutive, covering
\* [0, total_size) with the last one ending at total_size-1, and every
\* downloaded = 0.  (SpecPlan never writes a state file, so every plan is fresh.)
C1_PlanPartition ==
  \A a \in Attempts :
     state[a] # NoState =>
       LET segs == state[a].segments
           n == Len(segs)
       IN /\ n = concurrency
          /\ \A i \in 1..n : /\ 0 <= segs[i].start
                             /\ segs[i].start <= segs[i].end
                             /\ segs[i].end < state[a].total_size
                             /\ segs[i].downloaded = 0
          /\ segs[1].start = 0
          /\ \A i \in 1..(n - 1) : segs[i + 1].start = segs[i].end + 1
          /\ segs[n].end = state[a].total_size - 1

\* C2: if a segment task of an attempt ends with an error and the attempt's
\* token is never cancelled, the attempt eventually returns a failure
\* ("Failed"); the loop does not run forever on a failed segment.  Stated for
\* the plans of a Content-Length of at least `concurrency`, whose segments
\* are well formed.
C2_SegmentFailureSurfaces ==
  \A a \in Attempts :
     \/ <>(a \in cancelled)
     \/ []((/\ InLoop(a)
            /\ state[a].total_size >= concurrency
            /\ \E i \in SegsOf(a) : handles[a][i].st = "err")
             => <>(result[a] = "Failed"))

C4_PausedCountsBounded ==
  \A o \in Outputs :
     stateFile[o] # None =>
        /\ \A i \in 1..Len(stateFile[o].segments) :
              /\ 0 <= stateFile[o].segments[i].downloaded
              /\ stateFile[o].segments[i].downloaded
                    <= SegLen(stateFile[o].segments[i])
        /\ SumDownloaded(stateFile[o].segments) <= stateFile[o].total_size

\* C4 witness: a resumed attempt has paused in its turn and the state file
\* holds a partly downloaded segment.
C4_Witness ==
  /\ result[1] = "Paused" /\ result[2] = "Paused"
  /\ \E o \in Outputs :
        /\ stateFile[o] # None
        /\ \E i \in 1..Len(stateFile[o].segments) :
              /\ 0 < stateFile[o].segments[i].downloaded
              /\ stateFile[o].segments[i].downloaded
                    < SegLen(stateFile[o].segments[i])

\* C5: a call made while the state file of its output exists starts from the
\* file's plan and counts as they are, whatever the probe would answer and
\* without a panic; the task of every segment asks for the bytes
\* start+downloaded .. end, and every write of a task lands at or after the
\* first byte it asked for.
C5_ResumeFromRecordedCounts ==
  [][\A a \in Attempts :
       /\ (pc[a] = "idle" /\ pc'[a] # "idle"
             /\ \A o \in Outputs : stateFile[o] # None)
            => /\ pc'[a] = "check"
               /\ \E o \in Outputs : state'[a] = stateFile[o]
               /\ Len(handles'[a]) = Len(state'[a].segments)
               /\ \A i \in 1..Len(state'[a].segments) :
                     /\ handles'[a][i].from = state'[a].segments[i].start
                            + state'[a].segments[i].downloaded
                     /\ handles'[a][i].to = state'[a].segments[i].end
                     /\ FilePos(handles'[a][i]) >= handles'[a][i].from
       /\ \A i \in SegsOf(a) :
            (handles[a][i].st = "recv" /\ handles'[a][i].st = "recv"
               /\ handles'[a][i] # handles[a][i])
              => /\ FilePos(handles[a][i]) >= handles[a][i].from
                 /\ handles'[a][i].from = handles[a][i].from]_vars

\* C5 witness: a task of a resumed attempt asked for its segment from a
\* recorded count above zero and has written bytes after that offset.
C5_Witness ==
  \E a \in Attempts : \E i \in SegsOf(a) :
     /\ handles[a][i].st = "recv"
     /\ handles[a][i].from > handles[a][i].start
     /\ FilePos(handles[a][i]) > handles[a][i].from

\* C6: the step in which an attempt returns Ok leaves no state file for its
\* output, and a call that finds no state file starts from a plan whose
\* counts are all 0.
C6_CompletionRemovesStateFile ==
  [][\A a \in Attempts :
       /\ (result[a] # "Ok" /\ result'[a] = "Ok")
            => stateFile'[state[a].output] = None
       /\ (pc[a] = "idle" /\ pc'[a] = "check"
             /\ stateFile[state'[a].output] = None)
            => \A i \in 1..Len(state'[a].segments) :
                  state'[a].segments[i].downloaded = 0]_vars

\* C6 witness: an attempt was paused (its state file written) and the next
\* one, resumed from it, has returned Ok: the state file is gone.
C6_Witness ==
  /\ result[1] = "Paused" /\ result[2] = "Ok"
  /\ \A o \in Outputs : stateFile[o] = None

\* C7: a cancel_download call for an id that has no entry in the registry
\* (never started, or already cancelled) changes nothing: registry, tokens,
\* state files, output files, attempts and their tasks stay as they were.
C7_CancelAbsentIdNoOp ==
  [][(call' # call /\ call'.op = "cancel" /\ ~call'.found)
       => UNCHANGED <<TOKENS, cancelled, stateFile, outFile, nAtt, pc, result,
                      argId, state, handles, last_emit, progress>>]_vars

\* C7 witness: the last call was a cancel of an id without an entry, made
\* while an attempt registered under another id was in its loop and a state
\* file was on disk.
C7_Witness ==
  /\ call.op = "cancel" /\ ~call.found
  /\ \E a \in Attempts :
        InLoop(a) /\ argId[a] # call.id /\ TOKENS[argId[a]] = a
  /\ \E o \in Outputs : stateFile[o] # None

\* C8: within one attempt, each DOWNLOAD_PROGRESS event carries a
\* transferred total at least as large as the event before it.
C8_ProgressMonotone ==
  [][\A a \in Attempts :
       (progress[a].n # 0 /\ progress'[a].n # 0 /\ progress'[a].n # progress[a].n)
         => progress'[a].transferred >= progress[a].transferred]_vars

\* C8 witness: a resumed attempt has emitted two events, the second with
\* more bytes than the first had when the attempt began.
C8_Witness ==
  \E a \in Attempts :
     /\ a > 1 /\ result[1] = "Paused" /\ progress[a].n = 2
     /\ 0 < progress[a].transferred
     /\ progress[a].transferred < state[a].total_size

\* C9: an iteration of the loop emits an event exactly when at least EmitMs
\* have passed since the last emission (or since the attempt began); an
\* emitting iteration resets the timer, so two consecutive events of an
\* attempt are at least EmitMs apart.
C9_EmissionThrottle ==
  [][\A a \in Attempts :
       (pc[a] = "poll" /\ pc'[a] # "poll")
         => LET emitted == progress'[a].n # progress[a].n
            IN /\ emitted <=> last_emit[a] >= EmitMs
               /\ emitted => last_emit'[a] \in {0, SleepMs}
               /\ ~emitted => last_emit'[a] >= last_emit[a]
               /\ (emitted /\ progress[a].n # 0) => progress'[a].gap >= EmitMs]_vars

\* C9 witness: an attempt whose first iteration came before EmitMs had passed
\* has since emitted two events.
C9_Witness ==
  \E a \in Attempts :
     /\ progress[a].n = 2 /\ progress[a].gap >= EmitMs
     /\ InLoop(a)

\* C10: a call with no state file, whose probe answers without a
\* Content-Length, returns the failure MissingContentLength, and registers no
\* token, creates no file and starts no task.
C10_MissingLengthReturned ==
  [][\A a \in Attempts :
       (pc[a] = "idle" /\ pc'[a] = "done"
          /\ result'[a] \in {PanicNoLength.panic, "MissingContentLength"})
         => /\ result'[a] = "MissingContentLength"
            /\ UNCHANGED <<TOKENS, cancelled, stateFile, outFile, state,
                           handles>>]_vars

\* C11: every DOWNLOAD_PROGRESS event of an attempt, fresh or resumed, carries
\* 0 <= transferred <= total_size, so its percentage lies in [0, 100].
C11_ProgressWithinTotal ==
  \A a \in Attempts :
     progress[a].n # 0 =>
        /\ 0 <= progress[a].transferred
        /\ progress[a].transferred <= state[a].total_size

\* C12: at every moment, the offsets a segment task has written lie inside
\* its own window [start, end], and two tasks that are alive at the same time
\* on the same output file (tasks of a returned attempt that have not stopped
\* and tasks of a later attempt included) have written no offset in common.
\* The offsets a task has written are from .. FilePos - 1.
C12_DisjointWrites ==
  LET Tasks == {<<a, i>> \in Attempts \X (1..concurrency) :
                   i \in SegsOf(a) /\ Alive(handles[a][i])}
      T(x) == handles[x[1]][x[2]]
  IN /\ \A x \in Tasks :
          T(x).start <= T(x).from /\ FilePos(T(x)) - 1 <= T(x).to
     /\ \A x, y \in Tasks :
          (x # y /\ T(x).out = T(y).out)
            => \/ FilePos(T(x)) <= T(y).from
               \/ FilePos(T(y)) <= T(x).from
               \/ FilePos(T(x)) = T(x).from
               \/ FilePos(T(y)) = T(y).from

\* C13: once the token of an attempt is cancelled, each of its tasks takes
\* at most one more chunk before its receive loop exits.
C13_OneChunkAfterCancel ==
  \A a \in Attempts : \A i \in SegsOf(a) :
     handles[a][i] # Gone => handles[a][i].late <= 1

\* C14: the registry holds an entry for an id only while the attempt it was
\* registered for is running; once that attempt has returned (Ok, Paused or
\* a failure) the registry holds no entry for its id.
C14_RegistryOnlyWhileRunning ==
  \A id \in Ids : TOKENS[id] # 0 => Running(TOKENS[id])

\* C15: while an attempt is in its loop, the state file of its output path
\* exists (it was created when the fresh plan was first started).
C15_StateFileWhileRunning ==
  \A a \in Attempts : InLoop(a) => stateFile[state[a].output] # None

C17_CompletionLiveness ==
  \A a \in Attempts :
     \/ <>(a \in cancelled)
     \/ <>(\E i \in SegsOf(a) : handles[a][i].st = "err")
     \/ (InLoop(a) ~> result[a] = "Ok")

\* C17 witness: an attempt resumed from the state file of a pause, with a
\* segment that was already complete (its task asked for an empty range), was
\* never cancelled and has left its loop as complete.
C17_Witness ==
  /\ result[1] = "Paused" /\ pc[2] = "exit" /\ 2 \notin cancelled
  /\ \E i \in SegsOf(2) :
        /\ handles[2][i].st = "ok"
        /\ handles[2][i].from > handles[2][i].to
  /\ \A i \in SegsOf(2) : handles[2][i].st = "ok"

\* C18: at every moment and for every segment, the count the loop holds, and
\* every count in a state file, is at most the number of bytes written to the
\* output file contiguously from the segment's start; a poll leaves the count
\* of a segment whose task has not finished as it was.
C18_CountsBehindFile ==
  [][/\ \A a \in Attempts :
          state'[a] # NoState =>
            \A i \in 1..Len(state'[a].segments) :
               \A k \in 0..(state'[a].segments[i].downloaded - 1) :
                  state'[a].segments[i].start + k
                     \in outFile'[state'[a].output].bytes
     /\ \A o \in Outputs :
          stateFile'[o] # None =>
            \A i \in 1..Len(stateFile'[o].segments) :
               \A k \in 0..(stateFile'[o].segments[i].downloaded - 1) :
                  stateFile'[o].segments[i].start + k \in outFile'[o].bytes
     /\ \A a \in Attempts :
          (pc[a] = "poll" /\ pc'[a] # "poll")
            => \A i \in SegsOf(a) :
                  Alive(handles[a][i])
                    => state'[a].segments[i].downloaded
                          = state[a].segments[i].downloaded]_vars

\* C18 witness: a task has written bytes the loop has not recorded (its
\* segment's count is behind the file), and a state file written at a pause
\* holds a count above zero.
C18_Witness ==
  \E a \in Attempts : \E i \in SegsOf(a) :
     /\ InLoop(a) /\ handles[a][i].st = "recv"
     /\ handles[a][i].downloaded > state[a].segments[i].downloaded
     /\ stateFile[state[a].output] # None
     /\ SumDownloaded(stateFile[state[a].output].segments) > 0

\* C19: when an attempt returns Ok, every offset of [0, total_size) of its
\* output file has been written and every task of the attempt has finished.
\* Stated for the plans of a Content-Length of at least `concurrency`, whose
\* segments are well formed.
C19_SuccessMeansComplete ==
  [][\A a \in Attempts :
       (result[a] # "Ok" /\ result'[a] = "Ok"
          /\ state[a].total_size >= concurrency)
         => /\ \A k \in 0..(state[a].total_size - 1) :
                  k \in outFile[state[a].output].bytes
            /\ \A i \in SegsOf(a) : ~Alive(handles[a][i])]_vars

\* C20: for every attempt that is in its loop and whose token has not been
\* cancelled, the registry maps the attempt's id to the attempt's own token,
\* so that a cancel_download call for that id reaches it; also when download
\* was called again with the same id while the attempt was running.
C20_RunningAttemptRegistered ==
  \A a \in Attempts :
     (InLoop(a) /\ a \notin cancelled) => TOKENS[argId[a]] = a

====
